---- MODULE Spec2Model ----
(***************************************************************************)
(* A model of weii/cli.py: one balance-board measurement session.          *)
(*                                                                         *)
(* Units.  The board reports integer event values; the code divides them   *)
(* by 100 to get kilograms.  The model keeps raw event units (1/100 kg)    *)
(* for channel values, thresholds and the adjustment, so sums and          *)
(* comparisons are exact.  A median of an even number of values is the     *)
(* mean of the two middle ones, so every median-derived quantity is kept   *)
(* doubled, in units of 1/200 kg ("half units").  Binary floating-point    *)
(* rounding error is not modelled.                                         *)
(***************************************************************************)
EXTENDS Integers, Sequences, FiniteSets, TLC

VARIABLES
    args,             \* the parsed command line (argparse Namespace)
    pc,               \* position of the session in measure_weight
    exit_msg,         \* message of sys.exit / name of an uncaught exception, or None
    board,            \* TRUE once get_board_device returned a device
    polled,           \* history: get_board_device has been called
    ready_waits,      \* history: number of wait_for_space calls
    ready,            \* history: wait_for_space has read a SPACE
    data,             \* get_raw_measurement's local list of 4 channel values
    fresh,            \* history: data[i] was set after the last frame boundary
    discarded,        \* history: a boundary found a frame incomplete and dropped
                      \* the values collected for it
    stale_emitted,    \* history: a frame was returned holding a value from
                      \* before a boundary that found the frame incomplete
    frames_read,      \* history: the frames get_raw_measurement has returned
    emitted_on,       \* history: the codes of the events on which a frame was returned
    btn_a_seen,       \* history: a BTN_A event was read while sampling
    weight_data,      \* read_data's sensor_readings / measure_weight's weight_data
    closed,           \* number of device.close() calls
    metrics,          \* the metrics dict: Nothing before it is computed
    stdout,           \* what the session printed, in order
    files,            \* the files written under $VISIT_PATH/weiibal
    disconnects,      \* the bluetoothctl disconnect calls made
    commands          \* the completion commands run

vars == << args, pc, exit_msg, board, polled, ready_waits, ready, data, fresh,
           discarded, stale_emitted, frames_read, emitted_on, btn_a_seen, weight_data,
           closed, metrics, stdout, files, disconnects, commands >>

None == "None"

\* debug(message): a line on the console unless TERSE
DebugLine(text) == [kind |-> "debug", text |-> text]

-----------------------------------------------------------------------------
(* Bounds of the model *)

\* largest --samples value of a session that reads the board
MaxSamples == 2
\* largest --samples value of a --fake session
MaxFakeSamples == 4

-----------------------------------------------------------------------------
(* Program constants *)

\* the four channels, in SENSOR_ORDER: TL, TR, BL, BR
TL == 1
TR == 2
BL == 3
BR == 4
Channels == {TL, TR, BL, BR}

\* the value of every element of the --fake list, 85.2 kg, in 1/100 kg
FakeReading == 8520

\* KG_TO_LBS = 2.20462, as a fraction over LbsDen
KG_TO_LBS == 220462
LbsDen == 100000

-----------------------------------------------------------------------------
(* Inputs *)

\* Event values the board sends on each channel, in 1/100 kg.
ChannelValues == [c \in Channels |->
                    IF c = TL THEN {0, 1500} ELSE IF c = TR THEN {0, 1000} ELSE {0}]

\* evdev event codes get_raw_measurement tells apart; "OTHER" is any code it
\* has no branch for, or a SYN_REPORT whose value is not 0.
ChannelCode == [c \in Channels |->
                  IF c = TL THEN "ABS_HAT1X" ELSE IF c = TR THEN "ABS_HAT0X"
                  ELSE IF c = BL THEN "ABS_HAT1Y" ELSE "ABS_HAT0Y"]

ChannelEvents == UNION {[code : {ChannelCode[c]}, value : ChannelValues[c]] : c \in Channels}

\* What device.read_one() can return; NoEvent is its None.
NoEvent == [code |-> None, value |-> 0]
Events == ChannelEvents
          \cup [code : {"SYN_REPORT", "BTN_A", "SYN_DROPPED", "OTHER"}, value : {0}]
          \cup {[code |-> "SYN_REPORT", value |-> 1], NoEvent}

\* --minlimit, in 1/100 kg
Thresholds == {1200, 2000}
\* --adjust, in 1/100 kg
Adjusts == {0, -150}
\* characters the operator may type at the prompt
Keys == {" ", "x"}

\* --disconnect-when-done: a string as the tuple of its characters
NoAddress == << >>
GoodAddress == << "0","0",":","1","f",":","3","2",":","B","C",":","a","9",":","7","e" >>
BadAddress == << "0","0",":","1","f",":","3","2",":","B","C",":","a","9",":","7" >>
Addresses == {NoAddress, GoodAddress, BadAddress}

\* --command: a shell command as the tuple of its pieces
NoCommand == << >>
LogCommand == << "log ", "{weight}" >>
Commands == {NoCommand, LogCommand}

\* what os.environ.get("VISIT_PATH") can return: unset, or a directory
VisitPaths == {None, "/visits/v1"}
\* what datetime.now().isoformat(timespec='seconds') returns, as its pieces
Now == << "2024-05-01T10", ":", "15", ":", "00" >>

Args == { a \in [ disconnect_when_done : Addresses, fake : BOOLEAN,
                  samples : 0 .. (IF MaxSamples > MaxFakeSamples THEN MaxSamples
                                  ELSE MaxFakeSamples),
                  minlimit : Thresholds, adjust : Adjusts, weight_only : BOOLEAN,
                  units : {"kg", "lbs"}, json : BOOLEAN, save : BOOLEAN,
                  print : BOOLEAN, command : Commands ] :
            a.samples <= (IF a.fake THEN MaxFakeSamples ELSE MaxSamples) }

-----------------------------------------------------------------------------
(* get_raw_measurement and read_data *)

Range(s) == {s[i] : i \in DOMAIN s}

\* A Python value that may be None: << >> is None, << v >> is the value v.
Nothing == << >>
Some(v) == << v >>

\* data = [None] * 4
EmptyData == [c \in Channels |-> Nothing]
NoneFresh == [c \in Channels |-> FALSE]

\* None not in data
Complete(d) == \A c \in Channels : d[c] # Nothing

\* tuple(data)
Frame(d) == << d[TL][1], d[TR][1], d[BL][1], d[BR][1] >>

\* data[i] = event.value / 100
SetChannel(d, c, v) == [d EXCEPT ![c] = Some(v)]

\* the channel an event code belongs to (0: none)
ChannelOf(code) == IF \E c \in Channels : ChannelCode[c] = code
                   THEN CHOOSE c \in Channels : ChannelCode[c] = code
                   ELSE 0

\* event.code == ecodes.SYN_REPORT and event.value == 0
IsBoundary(ev) == ev.code = "SYN_REPORT" /\ ev.value = 0

\* event.code == ecodes.BTN_A
IsAbort(ev) == ev.code = "BTN_A"

\* a boundary that keeps the values collected so far
AfterIncomplete_Keeps(d) == d

\* data = [None] * 4, at a boundary that finds a channel missing
AfterIncomplete(d) == EmptyData

\* sum(measurement)
Sum4(f) == f[1] + f[2] + f[3] + f[4]

\* the threshold check applied to the first frame too
SteppedOff_FirstToo(readings, f, threshold) == Sum4(f) < threshold

\* len(sensor_readings) > 0 and current_weight < threshold
SteppedOff(readings, f, threshold) == Len(readings) > 0 /\ Sum4(f) < threshold

\* a loop that runs one pass too many
LoopContinues_OneMore(readings, samples) == Len(readings) <= samples

\* while len(sensor_readings) < samples
LoopContinues(readings, samples) == Len(readings) < samples

\* sensor_readings after one pass of the loop body over frame f
AfterFrame(readings, f, threshold) ==
    IF SteppedOff(readings, f, threshold) THEN readings ELSE Append(readings, f)

\* a read_data that returns without closing the device
CloseDevice_Never(n) == n

\* device.close() after the loop
CloseDevice(n) == n + 1

-----------------------------------------------------------------------------
(* The session: measure_weight up to the end of sampling *)

Init ==
    /\ args \in Args
    /\ pc = "start"
    /\ exit_msg = None
    /\ board = FALSE
    /\ polled = FALSE
    /\ ready_waits = 0
    /\ ready = FALSE
    /\ data = EmptyData
    /\ fresh = NoneFresh
    /\ discarded = FALSE
    /\ stale_emitted = FALSE
    /\ frames_read = << >>
    /\ emitted_on = {}
    /\ btn_a_seen = FALSE
    /\ weight_data = << >>
    /\ closed = 0
    /\ metrics = Nothing
    /\ stdout = << >>
    /\ files = << >>
    /\ disconnects = << >>
    /\ commands = << >>

HexDigits == {"0","1","2","3","4","5","6","7","8","9",
              "a","b","c","d","e","f","A","B","C","D","E","F"}

\* re.match(r"^([0-9a-f]{2}[:]){5}([0-9a-f]{2})$", address, re.IGNORECASE)
AddressMatches(a) ==
    /\ Len(a) = 17
    /\ \A i \in 1 .. 17 : IF i % 3 = 0 THEN a[i] = ":" ELSE a[i] \in HexDigits

\* measure_weight's first lines: the address check, then "Waiting for balance board..."
Start ==
    /\ pc = "start"
    /\ IF args.disconnect_when_done # NoAddress
          /\ ~AddressMatches(args.disconnect_when_done)
       THEN /\ pc' = "exit"
            /\ exit_msg' = "ERROR: Invalid device address to disconnect specified."
            /\ UNCHANGED stdout
       ELSE /\ pc' = "poll"
            /\ stdout' = IF args.weight_only THEN stdout
                         ELSE Append(stdout, DebugLine("Waiting for balance board..."))
            /\ UNCHANGED exit_msg
    /\ UNCHANGED << args, board, polled, ready_waits, ready, data, fresh,
                    discarded, stale_emitted, frames_read, emitted_on, btn_a_seen, weight_data,
                    closed, metrics, files, disconnects, commands >>

\* debug("\aBalance board found, please step on.")
FoundMessage(out) == IF args.weight_only THEN out
                     ELSE Append(out, DebugLine("Balance board found, please step on."))

\* a polling loop that is left when no board is found
AfterPoll_GivesUp(found) == IF found THEN "wait_space" ELSE "exit"

\* `if board: break`, else `time.sleep(0.5)` and the next pass
AfterPoll(found) == IF found THEN "wait_space" ELSE "poll"

\* One pass of `while not args.fake`: get_board_device finds the board or not.
\* When it does, read_data is entered and wait_for_space prompts.
Poll ==
    /\ pc = "poll"
    /\ ~args.fake
    /\ polled' = TRUE
    /\ \E found \in BOOLEAN :
         /\ pc' = AfterPoll(found)
         /\ IF found
            THEN /\ board' = TRUE
                 /\ stdout' = FoundMessage(stdout)
                 /\ ready_waits' = ready_waits + 1
            ELSE UNCHANGED << board, stdout, ready_waits >>
    /\ UNCHANGED << args, exit_msg, ready, data, fresh, discarded, stale_emitted, frames_read,
                    emitted_on, btn_a_seen, weight_data, closed, metrics, files,
                    disconnects, commands >>

\* [85.2] * args.samples
FakeData(n) == [i \in 1 .. n |-> FakeReading]

\* --fake: the polling loop is not entered; weight_data = [85.2] * args.samples
Fake ==
    /\ pc = "poll"
    /\ args.fake
    /\ stdout' = FoundMessage(stdout)
    /\ weight_data' = FakeData(args.samples)
    /\ pc' = "compute"
    /\ UNCHANGED << args, exit_msg, board, polled, ready_waits, ready, data, fresh,
                    discarded, stale_emitted, frames_read, emitted_on, btn_a_seen, closed, metrics,
                    files, disconnects, commands >>

\* a prompt that any key ends
IsSpace_AnyKey(ch) == TRUE

\* if ch == ' ': break
IsSpace(ch) == ch = " "

\* wait_for_space reads one character; on SPACE read_data starts its loop
\* (sensor_readings = []), which with samples <= 0 is left at once.
WaitForSpace ==
    /\ pc = "wait_space"
    /\ \E ch \in Keys :
         /\ ready' = (ready \/ ch = " ")
         /\ IF IsSpace(ch)
            THEN /\ weight_data' = << >>
                 /\ IF LoopContinues(<< >>, args.samples)
                    THEN /\ pc' = "sampling"
                         /\ UNCHANGED closed
                    ELSE /\ pc' = "compute"
                         /\ closed' = CloseDevice(closed)
            ELSE UNCHANGED << weight_data, pc, closed >>
    /\ UNCHANGED << args, exit_msg, board, polled, ready_waits, data, fresh,
                    discarded, stale_emitted, frames_read, emitted_on, btn_a_seen,
                    metrics, stdout, files, disconnects, commands >>

\* a BTN_A branch that does not exit
AbortPc_Ignored(p) == p

\* sys.exit on BTN_A
AbortPc(p) == "exit"

\* One device.read_one() inside get_raw_measurement, and, when it completes a
\* frame, the rest of that pass of read_data's loop.
ReadEvent ==
    /\ pc = "sampling"
    /\ \E ev \in Events :
         IF ChannelOf(ev.code) # 0
         THEN /\ data' = SetChannel(data, ChannelOf(ev.code), ev.value)
              /\ fresh' = [fresh EXCEPT ![ChannelOf(ev.code)] = TRUE]
              /\ UNCHANGED << pc, exit_msg, discarded, stale_emitted, frames_read,
                              emitted_on, btn_a_seen, weight_data, closed >>
         ELSE IF IsBoundary(ev)
         THEN IF Complete(data)
              THEN LET f == Frame(data)
                       readings == AfterFrame(weight_data, f, args.minlimit)
                       more == /\ ~SteppedOff(weight_data, f, args.minlimit)
                               /\ LoopContinues(readings, args.samples)
                   IN /\ frames_read' = Append(frames_read, f)
                      /\ emitted_on' = emitted_on \cup {ev.code}
                      /\ stale_emitted' = (stale_emitted \/ \E c \in Channels : ~fresh[c])
                      /\ weight_data' = readings
                      /\ data' = EmptyData
                      /\ fresh' = NoneFresh
                      /\ pc' = IF more THEN "sampling" ELSE "compute"
                      /\ closed' = IF more THEN closed ELSE CloseDevice(closed)
                      /\ UNCHANGED << exit_msg, discarded, btn_a_seen >>
              ELSE /\ data' = AfterIncomplete(data)
                   /\ fresh' = NoneFresh
                   /\ discarded' = (discarded \/ data # EmptyData)
                   /\ UNCHANGED << pc, exit_msg, stale_emitted, frames_read, emitted_on,
                                   btn_a_seen, weight_data, closed >>
         ELSE IF IsAbort(ev)
         THEN /\ btn_a_seen' = TRUE
              /\ pc' = AbortPc(pc)
              /\ exit_msg' = IF AbortPc(pc) = "exit"
                             THEN "ERROR: User pressed board button while measuring, aborting."
                             ELSE exit_msg
              /\ UNCHANGED << data, fresh, discarded, stale_emitted, frames_read, emitted_on,
                              weight_data, closed >>
         ELSE UNCHANGED << pc, exit_msg, data, fresh, discarded, stale_emitted, frames_read,
                           emitted_on, btn_a_seen, weight_data, closed >>
    /\ UNCHANGED << args, board, polled, ready_waits, ready, metrics, stdout, files,
                    disconnects, commands >>

-----------------------------------------------------------------------------
(* calculate_metrics *)

\* The items `tl, tr, bl, br = np.array(sensor_readings).T` unpacks: a list of
\* k >= 1 four-tuples is a (k, 4) array whose transpose has 4 rows; a list of
\* n floats, or an empty list, is a 1-d array of its n (or 0) elements.
UnpackLen(rows, scalars) == IF scalars \/ Len(rows) = 0 THEN Len(rows) ELSE 4

\* The c-th unpacked item as a sequence: a row of the transpose, or one element.
Column(rows, scalars, c) ==
    IF scalars THEN << rows[c] >> ELSE [i \in 1 .. Len(rows) |-> rows[i][c]]

\* elementwise a + b and a - b
Plus(a, b) == [i \in DOMAIN a |-> a[i] + b[i]]
Minus(a, b) == [i \in DOMAIN a |-> a[i] - b[i]]

\* s with x inserted before the first element greater than x (s sorted)
RECURSIVE Insert(_, _)
Insert(s, x) ==
    IF s = << >> THEN << x >>
    ELSE IF x <= Head(s) THEN << x >> \o s
    ELSE << Head(s) >> \o Insert(Tail(s), x)

\* s in ascending order
RECURSIVE Sort(_)
Sort(s) == IF s = << >> THEN << >> ELSE Insert(Sort(Tail(s)), Head(s))

\* a median taken from the middle of the values as they come, unsorted
Median2_Unsorted(s) ==
    LET n == Len(s)
    IN IF n % 2 = 1 THEN 2 * s[(n + 1) \div 2] ELSE s[n \div 2] + s[n \div 2 + 1]

\* np.median(s), doubled: the middle element of the sorted values, or the
\* mean of the two middle ones
Median2(s) ==
    LET t == Sort(s)
        n == Len(t)
    IN IF n % 2 = 1 THEN 2 * t[(n + 1) \div 2] ELSE t[n \div 2] + t[n \div 2 + 1]

Abs(x) == IF x < 0 THEN -x ELSE x

\* (a / b) * 100 in numpy float64 arithmetic, a >= 0: dividing by zero gives
\* nan or inf (with a RuntimeWarning), not an exception.  A finite quotient
\* is the fraction num / den with den > 0.
PercentOf(a, b) ==
    IF b = 0 THEN [kind |-> IF a = 0 THEN "nan" ELSE "inf", num |-> 0, den |-> 1]
    ELSE IF b > 0 THEN [kind |-> "finite", num |-> 100 * a, den |-> b]
    ELSE [kind |-> "finite", num |-> -(100 * a), den |-> -b]

\* a comparison that gives the tie to the first side
Side_TieToFirst(diff, positive, other) == IF diff >= 0 THEN positive ELSE other

\* lr_side / fb_side: "Left" if lr_diff > 0 else "Right"
Side(diff, positive, other) == IF diff > 0 THEN positive ELSE other

\* calculate_metrics(sensor_readings): weights in 1/200 kg.  Defined when
\* the unpacking succeeds (UnpackLen = 4).
calculate_metrics(rows, scalars) ==
    LET tl == Column(rows, scalars, TL)
        tr == Column(rows, scalars, TR)
        bl == Column(rows, scalars, BL)
        br == Column(rows, scalars, BR)
        total_weight == Median2(Plus(Plus(tl, tr), Plus(bl, br)))
        lr_diff == Median2(Minus(Plus(tl, bl), Plus(tr, br)))
        fb_diff == Median2(Minus(Plus(tl, tr), Plus(bl, br)))
    IN [ weight_kg |-> total_weight,
         left_right_diff |-> Abs(lr_diff),
         front_back_diff |-> Abs(fb_diff),
         lr_diff_percent |-> PercentOf(Abs(lr_diff), total_weight),
         fb_diff_percent |-> PercentOf(Abs(fb_diff), total_weight),
         lr_side |-> Side(lr_diff, "Left", "Right"),
         fb_side |-> Side(fb_diff, "Front", "Back") ]

\* an adjustment applied before the percentages are taken
Adjusted_RescalesPercent(m, adjust) ==
    [m EXCEPT !.weight_kg = @ + 2 * adjust,
              !.lr_diff_percent = PercentOf(m.left_right_diff, m.weight_kg + 2 * adjust),
              !.fb_diff_percent = PercentOf(m.front_back_diff, m.weight_kg + 2 * adjust)]

\* metrics['weight_kg'] += args.adjust  (adjust in 1/100 kg, weight in 1/200 kg)
Adjusted(m, adjust) == [m EXCEPT !.weight_kg = @ + 2 * adjust]

-----------------------------------------------------------------------------
(* format_output and the printed forms *)

\* n / d (d > 0) rounded to the nearest integer, ties to the even one
RoundHalfEven(n, d) ==
    LET q == n \div d
        r == n - q * d
    IN IF 2 * r < d THEN q
       ELSE IF 2 * r > d THEN q + 1
       ELSE IF q % 2 = 0 THEN q ELSE q + 1

\* x * k / d (d > 0) rounded as RoundHalfEven does; the whole part of k / d
\* is multiplied apart, which keeps the products within TLC's integers
MulRound(x, k, d) ==
    LET f == x * (k % d)
        q == f \div d
        r == f - q * d
        b == x * (k \div d) + q
    IN IF 2 * r < d THEN b
       ELSE IF 2 * r > d THEN b + 1
       ELSE IF b % 2 = 0 THEN b ELSE b + 1

\* a formatter that leaves the weights in kg
RoundWeight_Unconverted(x, use_lbs) == RoundHalfEven(x, 2)

\* round(x, 2) of a weight x given in 1/200 kg, in 1/100 of the chosen unit;
\* with use_lbs x is x * KG_TO_LBS
RoundWeight(x, use_lbs) ==
    IF use_lbs THEN MulRound(x, KG_TO_LBS, 2 * LbsDen) ELSE RoundHalfEven(x, 2)

\* round(p, 1) of a percentage, in 1/10 percent; nan and inf stay as they are
RoundPercent(p) ==
    IF p.kind = "finite" THEN [kind |-> "finite", tenths |-> RoundHalfEven(10 * p.num, p.den)]
    ELSE [kind |-> p.kind, tenths |-> 0]

\* f"{weight_kg:.1f}": the weight in 1/10 kg
OneDecimal(x) == RoundHalfEven(x, 20)

format_output(m, use_lbs) ==
    [ timestamp |-> Now,
      units |-> IF use_lbs THEN "lbs" ELSE "kg",
      total_weight |-> RoundWeight(m.weight_kg, use_lbs),
      coronal |-> [ increased_weight |-> m.lr_side,
                    value |-> RoundWeight(m.left_right_diff, use_lbs),
                    percentage |-> RoundPercent(m.lr_diff_percent) ],
      saggital |-> [ increased_weight |-> m.fb_side,
                     value |-> RoundWeight(m.front_back_diff, use_lbs),
                     percentage |-> RoundPercent(m.fb_diff_percent) ] ]

\* s.replace(old, new) on a string given as its pieces
Replace(s, old, new) == [i \in DOMAIN s |-> IF s[i] = old THEN new ELSE s[i]]

\* lines written to the console
WeightLine(m) == [kind |-> "weight", tenths |-> OneDecimal(m.weight_kg)]
JsonLine(d) == [kind |-> "json", data |-> d]
TextLine == [kind |-> "text", text |-> "This will eventually be human readable output"]

-----------------------------------------------------------------------------
(* The session: measure_weight after sampling *)

\* metrics = calculate_metrics(sensor_readings); metrics['weight_kg'] += args.adjust
\* A failed unpacking is an uncaught ValueError.
ComputeMetrics ==
    /\ pc = "compute"
    /\ IF UnpackLen(weight_data, args.fake) = 4
       THEN /\ metrics' = Some(Adjusted(calculate_metrics(weight_data, args.fake),
                                        args.adjust))
            /\ pc' = "report"
            /\ UNCHANGED exit_msg
       ELSE /\ pc' = "exit"
            /\ exit_msg' = "ValueError"
            /\ UNCHANGED metrics
    /\ UNCHANGED << args, board, polled, ready_waits, ready, data, fresh, discarded, stale_emitted,
                    frames_read, emitted_on, btn_a_seen, weight_data, closed, stdout,
                    files, disconnects, commands >>

\* a session that goes on to the disconnect without saving
AfterReport_SkipsPersist(a) == IF a.weight_only THEN "done" ELSE "disconnect"

\* a save that does not ask for --json
AfterReport_SavesWithoutJson(a) ==
    IF a.weight_only THEN "done"
    ELSE IF a.save THEN "persist"
    ELSE "disconnect"

\* where measure_weight goes after printing
AfterReport(a) ==
    IF a.weight_only THEN "done"
    ELSE IF a.json /\ a.save THEN "persist"
    ELSE "disconnect"

\* `if args.weight_only: ... return`, else format_output and the print of
\* the json or of the placeholder text
Report ==
    /\ pc = "report"
    /\ stdout' = Append(stdout,
                    IF args.weight_only THEN WeightLine(metrics[1])
                    ELSE IF args.json
                    THEN JsonLine(format_output(metrics[1], args.units = "lbs"))
                    ELSE TextLine)
    /\ pc' = AfterReport(args)
    /\ UNCHANGED << args, exit_msg, board, polled, ready_waits, ready, data, fresh,
                    discarded, stale_emitted, frames_read, emitted_on, btn_a_seen, weight_data,
                    closed, metrics, files, disconnects, commands >>

\* os.path.join(weiibal_dir, f"{timestamp}.json"), timestamp with ":" replaced by "-"
OutFile(visit_path, d) == << visit_path, "weiibal", Replace(d.timestamp, ":", "-"), ".json" >>

\* `if args.save:` under `if args.json:`
Persist ==
    /\ pc = "persist"
    /\ \E visit_path \in VisitPaths :
         IF visit_path = None
         THEN /\ pc' = "exit"
              /\ exit_msg' = "VISIT_PATH not set. Cannot save."
              /\ UNCHANGED << files, stdout >>
         ELSE LET d == format_output(metrics[1], args.units = "lbs")
              IN /\ files' = Append(files, [path |-> OutFile(visit_path, d), data |-> d])
                 /\ stdout' = IF args.print THEN Append(stdout, JsonLine(d)) ELSE stdout
                 /\ pc' = "disconnect"
                 /\ UNCHANGED exit_msg
    /\ UNCHANGED << args, board, polled, ready_waits, ready, data, fresh, discarded, stale_emitted,
                    frames_read, emitted_on, btn_a_seen, weight_data, closed, metrics,
                    disconnects, commands >>

\* `if args.disconnect_when_done:` bluetoothctl disconnect <address>
Disconnect ==
    /\ pc = "disconnect"
    /\ IF args.disconnect_when_done # NoAddress
       THEN /\ stdout' = Append(stdout, DebugLine("Disconnecting..."))
            /\ disconnects' = Append(disconnects, args.disconnect_when_done)
       ELSE UNCHANGED << stdout, disconnects >>
    /\ pc' = "command"
    /\ UNCHANGED << args, exit_msg, board, polled, ready_waits, ready, data, fresh,
                    discarded, stale_emitted, frames_read, emitted_on, btn_a_seen, weight_data,
                    closed, metrics, files, commands >>

\* `if args.command:` run it with {weight} replaced, then return
RunCommand ==
    /\ pc = "command"
    /\ IF args.command # NoCommand
       THEN commands' = Append(commands,
                           Replace(args.command, "{weight}",
                                   WeightLine(metrics[1]).tenths))
       ELSE UNCHANGED commands
    /\ pc' = "done"
    /\ UNCHANGED << args, exit_msg, board, polled, ready_waits, ready, data, fresh,
                    discarded, stale_emitted, frames_read, emitted_on, btn_a_seen, weight_data,
                    closed, metrics, stdout, files, disconnects >>

Next ==
    \/ Start
    \/ Poll
    \/ Fake
    \/ WaitForSpace
    \/ ReadEvent
    \/ ComputeMetrics
    \/ Report
    \/ Persist
    \/ Disconnect
    \/ RunCommand

Spec == Init /\ [][Next]_vars

-----------------------------------------------------------------------------
(* calculate_metrics and format_output on drawn sample sets *)

\* longest sample set drawn
MaxCalcLen == 3

\* frames the sample sets are drawn from, in 1/100 kg per channel
CalcFrames == { << 2200, 2000, 2000, 2000 >>, << 2000, 2200, 2000, 2000 >>,
                << 2130, 2130, 2130, 2130 >>, << 0, 0, 0, 0 >>,
                << 1000, 3000, 2500, 1500 >>, << 2005, 2000, 2300, 2100 >> }

\* the sequences over S of length 1 .. n
SeqsUpTo(S, n) == UNION { [1 .. k -> S] : k \in 1 .. n }

\* The session at the return of a read_data that collected a full sample of
\* the drawn frames: the threshold 0 stops on none of them.
CalcInit ==
    /\ weight_data \in SeqsUpTo(CalcFrames, MaxCalcLen)
    /\ args \in { [a EXCEPT !.samples = Len(weight_data), !.minlimit = 0] :
                     a \in { b \in Args : /\ ~b.fake
                                          /\ b.disconnect_when_done = NoAddress
                                          /\ b.command = NoCommand
                                          /\ ~b.save /\ ~b.print } }
    /\ pc = "compute"
    /\ exit_msg = None
    /\ board = TRUE
    /\ polled = TRUE
    /\ ready_waits = 1
    /\ ready = TRUE
    /\ data = EmptyData
    /\ fresh = NoneFresh
    /\ discarded = FALSE
    /\ stale_emitted = FALSE
    /\ frames_read = weight_data
    /\ emitted_on = {"SYN_REPORT"}
    /\ btn_a_seen = FALSE
    /\ closed = 1
    /\ metrics = Nothing
    /\ stdout = IF args.weight_only THEN << >>
                ELSE << DebugLine("Waiting for balance board..."),
                        DebugLine("Balance board found, please step on.") >>
    /\ files = << >>
    /\ disconnects = << >>
    /\ commands = << >>

CalcNext == ComputeMetrics \/ Report

CalcSpec == CalcInit /\ [][CalcNext]_vars

-----------------------------------------------------------------------------
(* Properties of sampling *)

\* read_data has returned to measure_weight
ReadDataReturned == ready_waits = 1 /\ pc \notin {"wait_space", "sampling"} /\ ~btn_a_seen

\* the i-th frame read came after the first and had a channel sum below the threshold
SubThreshold(i) == i >= 2 /\ Sum4(frames_read[i]) < args.minlimit

FramesRead == Len(frames_read)

\* C1: read_data never holds more than N frames; it goes on reading only
\* while it holds fewer than N frames and no frame after the first had a
\* channel sum below T; and when it has returned (N >= 1) it holds exactly N
\* frames, all that were read, if no such frame was read, and otherwise it
\* stopped at the first such frame with fewer than N frames but at least 1.
C1_StopsAtNOrFirstSubThreshold ==
    ~args.fake =>
        /\ Len(weight_data) <= args.samples
        /\ pc = "sampling" =>
               /\ Len(weight_data) < args.samples
               /\ \A i \in 1 .. FramesRead : ~SubThreshold(i)
        /\ (ReadDataReturned /\ args.samples >= 1) =>
               IF \E i \in 1 .. FramesRead : SubThreshold(i)
               THEN /\ SubThreshold(FramesRead)
                    /\ \A i \in 1 .. FramesRead - 1 : ~SubThreshold(i)
                    /\ Len(weight_data) = FramesRead - 1
                    /\ Len(weight_data) >= 1
                    /\ Len(weight_data) < args.samples
               ELSE /\ Len(weight_data) = args.samples
                    /\ FramesRead = args.samples

\* read_data stopped early: a second frame below the threshold ended a run
\* that asked for more frames than it got
C1_Witness ==
    /\ ReadDataReturned
    /\ args.samples = MaxSamples
    /\ FramesRead = 2
    /\ SubThreshold(2)
    /\ Len(weight_data) = 1

C4_ClosedOnceAfterSampling ==
    /\ [](/\ closed <= 1
          /\ pc \in {"start", "poll", "wait_space", "sampling"} => closed = 0
          /\ ReadDataReturned => closed = 1
          /\ (~args.fake /\ metrics # Nothing) => closed = 1)
    /\ [][closed = 1 => (frames_read' = frames_read /\ closed' = 1)]_vars

\* the device was closed after an early stop, and metrics are not yet computed
C4_Witness ==
    /\ closed = 1
    /\ pc = "compute"
    /\ metrics = Nothing
    /\ Len(weight_data) >= 1
    /\ Len(weight_data) < args.samples

\* C7: no returned frame holds a value collected before a boundary that
\* found the frame incomplete, such a boundary leaves no collected value
\* behind, and a frame is returned on a SYN_REPORT(0) event only.
C7_FramesCompleteAndFresh ==
    /\ ~stale_emitted
    /\ \A c \in Channels : data[c] # Nothing => fresh[c]
    /\ emitted_on \subseteq {"SYN_REPORT"}
    /\ \A i \in 1 .. FramesRead : Len(frames_read[i]) = 4

\* a frame was returned after an incomplete one had been dropped
C7_Witness == discarded /\ FramesRead >= 1

\* C8: once BTN_A has been read while sampling the process has exited with
\* the abort message, and nothing follows: no frame is appended, no metrics
\* are computed, nothing is printed or written, no disconnect and no command.
C8_AbortEndsSession ==
    /\ [](btn_a_seen =>
            /\ pc = "exit"
            /\ exit_msg = "ERROR: User pressed board button while measuring, aborting."
            /\ metrics = Nothing
            /\ \A i \in 1 .. Len(stdout) : stdout[i].kind = "debug"
            /\ files = << >> /\ disconnects = << >> /\ commands = << >>)
    /\ [][btn_a_seen => UNCHANGED << weight_data, metrics, stdout, files,
                                     disconnects, commands, pc >>]_vars

\* the button was pressed after one frame had been collected
C8_Witness == btn_a_seen /\ Len(weight_data) = 1 /\ args.samples = MaxSamples

-----------------------------------------------------------------------------
(* Properties of the metrics *)

\* the k-th smallest value of s: fewer than k values lie below it and at
\* least k values are at most it
KthSmallest(s, k) ==
    CHOOSE x \in Range(s) :
        /\ Cardinality({i \in DOMAIN s : s[i] < x}) < k
        /\ Cardinality({i \in DOMAIN s : s[i] <= x}) >= k

\* twice the median of s, by rank
MedianByRank2(s) ==
    LET n == Len(s)
    IN IF n % 2 = 1 THEN 2 * KthSmallest(s, (n + 1) \div 2)
       ELSE KthSmallest(s, n \div 2) + KthSmallest(s, n \div 2 + 1)

\* per-frame values of a sample set of four-tuples
FrameSums(rows) == [i \in DOMAIN rows |-> rows[i][TL] + rows[i][TR] + rows[i][BL] + rows[i][BR]]
LeftMinusRight(rows) ==
    [i \in DOMAIN rows |-> (rows[i][TL] + rows[i][BL]) - (rows[i][TR] + rows[i][BR])]
FrontMinusBack(rows) ==
    [i \in DOMAIN rows |-> (rows[i][TL] + rows[i][TR]) - (rows[i][BL] + rows[i][BR])]

\* the rearrangements of a sequence
Rearrangements(rows) ==
    { [i \in DOMAIN rows |-> rows[p[i]]] :
        p \in { q \in [DOMAIN rows -> DOMAIN rows] :
                  \A i, j \in DOMAIN rows : q[i] = q[j] => i = j } }

\* metrics were computed from frames read from the board
MetricsOfFrames == ~args.fake /\ metrics # Nothing

\* C3 as claimed: a sample set whose median total is zero is rejected, so no
\* metrics record ever holds a percentage that is nan or inf.
C3_ZeroTotalRejected ==
    metrics # Nothing =>
        /\ metrics[1].lr_diff_percent.kind = "finite"
        /\ metrics[1].fb_diff_percent.kind = "finite"

\* C5: lr_side is "Left" iff the median of the per-frame (TL+BL)-(TR+BR) is
\* greater than 0 and "Right" otherwise, fb_side is "Front" iff the median of
\* the per-frame (TL+TR)-(BL+BR) is greater than 0 and "Back" otherwise, and
\* each magnitude is the absolute value of that median.
C5_SideBySignOfMedian ==
    MetricsOfFrames =>
        LET m == metrics[1]
            lr == MedianByRank2(LeftMinusRight(weight_data))
            fb == MedianByRank2(FrontMinusBack(weight_data))
        IN /\ m.lr_side \in {"Left", "Right"}
           /\ m.lr_side = "Left" <=> lr > 0
           /\ m.fb_side \in {"Front", "Back"}
           /\ m.fb_side = "Front" <=> fb > 0
           /\ m.left_right_diff = (IF lr < 0 THEN -lr ELSE lr)
           /\ m.front_back_diff = (IF fb < 0 THEN -fb ELSE fb)

\* both medians are exactly 0 over frames that are not all alike, and the
\* labels are "Right" and "Back"
C5_Witness ==
    /\ MetricsOfFrames
    /\ Len(weight_data) >= 2
    /\ weight_data[1] # weight_data[2]
    /\ MedianByRank2(LeftMinusRight(weight_data)) = 0
    /\ MedianByRank2(FrontMinusBack(weight_data)) = 0
    /\ metrics[1].lr_side = "Right"
    /\ metrics[1].fb_side = "Back"

\* C6: the total weight of the session is the median of the per-frame sums
\* plus the adjustment (here doubled, in 1/200 kg), and calculate_metrics
\* gives the same total for every rearrangement of the frames.
C6_TotalIsMedianPlusAdjust ==
    MetricsOfFrames =>
        /\ metrics[1].weight_kg = MedianByRank2(FrameSums(weight_data)) + 2 * args.adjust
        /\ \A rows \in Rearrangements(weight_data) :
               Adjusted(calculate_metrics(rows, FALSE), args.adjust).weight_kg
                   = metrics[1].weight_kg

\* three frames whose sums are not in ascending order, with an adjustment
C6_Witness ==
    /\ MetricsOfFrames
    /\ Len(weight_data) = 3
    /\ Sum4(weight_data[1]) > Sum4(weight_data[2])
    /\ Sum4(weight_data[2]) < Sum4(weight_data[3])
    /\ args.adjust # 0

-----------------------------------------------------------------------------
(* Properties of the session *)

\* the lines of the console that carry a result
ResultLines == { i \in 1 .. Len(stdout) : stdout[i].kind # "debug" }

\* C9 as claimed: a --fake session polls no device, waits for no key and
\* reads no frame, its metrics are computed, and they are those of identical
\* four-channel frames of 85.2 kg in total: 85.2 kg plus the adjustment, both
\* differences 0, sides "Right" and "Back".
C9_FakeSessionReports ==
    args.fake =>
        /\ ~polled /\ ready_waits = 0 /\ frames_read = << >>
        /\ exit_msg # "ValueError"
        /\ metrics # Nothing =>
               /\ metrics[1].weight_kg = 2 * (FakeReading + args.adjust)
               /\ metrics[1].left_right_diff = 0
               /\ metrics[1].front_back_diff = 0
               /\ metrics[1].lr_side = "Right"
               /\ metrics[1].fb_side = "Back"

\* C10 as claimed: a session that reported and ran to its end has made the
\* disconnect call exactly once if an address was given, and has run the
\* command, with the weight to one decimal in place of {weight}, exactly
\* once if a command was given; in weight-only and in structured mode.
C10_SideEffectsOnceAfterReport ==
    /\ Len(disconnects) <= 1
    /\ Len(commands) <= 1
    /\ (disconnects # << >> \/ commands # << >>) => ResultLines # {}
    /\ (pc = "done" /\ args.disconnect_when_done # NoAddress) =>
           disconnects = << args.disconnect_when_done >>
    /\ (pc = "done" /\ args.command # NoCommand) =>
           commands = << Replace(args.command, "{weight}", OneDecimal(metrics[1].weight_kg)) >>

\* the steps of the session in their order; "exit" ends it from any step
Rank(p) ==
    CASE p = "start" -> 0
      [] p = "poll" -> 1
      [] p = "wait_space" -> 2
      [] p = "sampling" -> 3
      [] p = "compute" -> 4
      [] p = "report" -> 5
      [] p = "persist" -> 6
      [] p = "disconnect" -> 7
      [] p = "command" -> 8
      [] p = "done" -> 9
      [] p = "exit" -> 10

\* --save takes effect: structured json output, not weight-only
PersistRequested == args.json /\ args.save /\ ~args.weight_only

VisitPathMessage == "VISIT_PATH not set. Cannot save."
AddressMessage == "ERROR: Invalid device address to disconnect specified."

\* C11: the session only moves forward through its steps; metrics exist only
\* once sampling is over (or in --fake mode); every reported line is derived
\* from the metrics with the adjustment applied; a file is written only
\* after the json report; the disconnect and the command come only after the
\* report and after the file when one is requested, the command after the
\* disconnect; and once either was made no file and no result line is added.
C11_StepsInOrder ==
    /\ [](/\ metrics # Nothing => (args.fake \/ (ReadDataReturned /\ closed = 1))
          /\ MetricsOfFrames =>
                 metrics[1].weight_kg
                     = MedianByRank2(FrameSums(weight_data)) + 2 * args.adjust
          /\ ResultLines # {} => metrics # Nothing
          /\ \A i \in ResultLines :
                 /\ stdout[i].kind = "weight" =>
                        stdout[i].tenths = OneDecimal(metrics[1].weight_kg)
                 /\ stdout[i].kind = "json" =>
                        stdout[i].data.total_weight
                            = RoundWeight(metrics[1].weight_kg, args.units = "lbs")
          /\ files # << >> => \E i \in ResultLines : stdout[i].kind = "json"
          /\ (disconnects # << >> \/ commands # << >>) =>
                 /\ ResultLines # {}
                 /\ PersistRequested => files # << >>
          /\ (commands # << >> /\ args.disconnect_when_done # NoAddress) =>
                 disconnects # << >>)
    /\ [][Rank(pc') >= Rank(pc)]_vars
    /\ [][(disconnects # << >> \/ commands # << >>) =>
              /\ files' = files
              /\ \A i \in 1 .. Len(stdout') : i > Len(stdout) => stdout'[i].kind = "debug"]_vars

\* a session that read the board went through every step: it saved a file,
\* disconnected and ran the command
C11_Witness ==
    /\ pc = "done"
    /\ ~args.fake
    /\ Len(weight_data) = MaxSamples
    /\ files # << >>
    /\ disconnects # << >>
    /\ commands # << >>

\* C12: at most one file is written; one is written only when --save and
\* --json are given without --weight-only and VISIT_PATH is set; when they
\* are given and VISIT_PATH is unset the session exits with the VISIT_PATH
\* message and no file; a session that got past saving with them given has
\* written exactly one file.
C12_FileOnlyWhenSaveJson ==
    /\ Len(files) <= 1
    /\ files # << >> => (PersistRequested /\ files[1].path[1] # None)
    /\ exit_msg = VisitPathMessage => (PersistRequested /\ pc = "exit" /\ files = << >>)
    /\ pc = "persist" => PersistRequested
    /\ (PersistRequested /\ pc \in {"disconnect", "command", "done"}) => Len(files) = 1

\* a file was written by a session that ran to its end
C12_Witness == pc = "done" /\ Len(files) = 1 /\ args.print

\* C13 as claimed: a session that exits on the invalid address has polled
\* nothing, waited for no key, read no frame and printed nothing; a session
\* that exits on the unset VISIT_PATH has printed no record, written no
\* file, made no disconnect call and run no command.
C13_NoPartialSideEffects ==
    /\ exit_msg = AddressMessage =>
           /\ ~polled /\ ready_waits = 0 /\ frames_read = << >> /\ stdout = << >>
           /\ files = << >> /\ disconnects = << >> /\ commands = << >>
    /\ exit_msg = VisitPathMessage =>
           /\ ResultLines = {}
           /\ files = << >> /\ disconnects = << >> /\ commands = << >>

-----------------------------------------------------------------------------
(* Properties of the metrics and of the formatted record under the adjustment
   and the unit *)

\* p is the percentage of mag in total (both in 1/200 kg, total >= 0): the
\* fraction 100 * mag / total, or nan / inf when total is 0
PercentIs(p, mag, total) ==
    IF total = 0 THEN p.kind = (IF mag = 0 THEN "nan" ELSE "inf")
    ELSE p.kind = "finite" /\ p.den = total /\ p.num = 100 * mag

\* C14: both percentages are the magnitude over the median total before the
\* adjustment, times 100, and the metrics of the same frames under any other
\* adjustment differ in the total weight only.
C14_AdjustLeavesPercentages ==
    MetricsOfFrames =>
        LET m == metrics[1]
            total == MedianByRank2(FrameSums(weight_data))
            lr == MedianByRank2(LeftMinusRight(weight_data))
            fb == MedianByRank2(FrontMinusBack(weight_data))
        IN /\ m.weight_kg = total + 2 * args.adjust
           /\ PercentIs(m.lr_diff_percent, IF lr < 0 THEN -lr ELSE lr, total)
           /\ PercentIs(m.fb_diff_percent, IF fb < 0 THEN -fb ELSE fb, total)
           /\ \A a \in Adjusts :
                  Adjusted(calculate_metrics(weight_data, FALSE), a)
                      = [m EXCEPT !.weight_kg = total + 2 * a]

\* metrics with a non-zero adjustment and a non-zero left/right percentage
C14_Witness ==
    /\ MetricsOfFrames
    /\ args.adjust # 0
    /\ metrics[1].left_right_diff > 0
    /\ metrics[1].lr_diff_percent.kind = "finite"

\* v is x / 2 rounded to a nearest integer: a weight of x (1/200 kg) in 1/100 kg
NearestKg(v, x) == 2 * v - x \in -1 .. 1

\* v is x * KG_TO_LBS / (2 * LbsDen) rounded to a nearest integer: a weight
\* of x (1/200 kg) in 1/100 lbs
NearestLbs(v, x) ==
    LET d == 2 * LbsDen * (v - x) - x * (KG_TO_LBS - 2 * LbsDen)
    IN d >= -LbsDen /\ d <= LbsDen

\* C15: for the same metrics the kg record and the lbs record have the same
\* timestamp, side labels and percentages; they differ in the unit string
\* and in the three weights, each of which is the kg value, times 2.20462
\* in the lbs record, rounded to two decimals; the json line printed is the
\* record of the chosen unit.
C15_UnitsChangeWeightsOnly ==
    MetricsOfFrames =>
        LET m == metrics[1]
            kg == format_output(m, FALSE)
            lbs == format_output(m, TRUE)
        IN /\ kg.units = "kg" /\ lbs.units = "lbs"
           /\ kg.timestamp = lbs.timestamp
           /\ kg.coronal.increased_weight = m.lr_side
           /\ lbs.coronal.increased_weight = m.lr_side
           /\ kg.saggital.increased_weight = m.fb_side
           /\ lbs.saggital.increased_weight = m.fb_side
           /\ kg.coronal.percentage = lbs.coronal.percentage
           /\ kg.saggital.percentage = lbs.saggital.percentage
           /\ NearestKg(kg.total_weight, m.weight_kg)
           /\ NearestKg(kg.coronal.value, m.left_right_diff)
           /\ NearestKg(kg.saggital.value, m.front_back_diff)
           /\ NearestLbs(lbs.total_weight, m.weight_kg)
           /\ NearestLbs(lbs.coronal.value, m.left_right_diff)
           /\ NearestLbs(lbs.saggital.value, m.front_back_diff)
           /\ \A i \in ResultLines :
                  stdout[i].kind = "json" =>
                      stdout[i].data = (IF args.units = "lbs" THEN lbs ELSE kg)

\* a record in lbs was printed for metrics with a non-zero left/right difference
C15_Witness ==
    /\ MetricsOfFrames
    /\ args.units = "lbs"
    /\ metrics[1].left_right_diff > 0
    /\ \E i \in ResultLines :
           /\ stdout[i].kind = "json"
           /\ stdout[i].data.units = "lbs"
           /\ stdout[i].data.coronal.percentage.kind = "finite"
           /\ stdout[i].data.coronal.percentage.tenths > 0

-----------------------------------------------------------------------------
(* The ready gate and the polling loop *)

BeforeSampling == {"start", "poll", "wait_space"}

\* C16: in a session with a board, wait_for_space is entered at most once,
\* only once the board was found and while no frame has been read; frames
\* are read and counted only after SPACE was read, and every counted frame
\* is one that was read after it.
C16_ReadyGateOnceBeforeFrames ==
    ~args.fake =>
        /\ ready_waits <= 1
        /\ pc \in {"start", "poll"} => ready_waits = 0 /\ ~ready
        /\ pc = "wait_space" => board /\ ready_waits = 1
        /\ pc \in BeforeSampling => frames_read = << >> /\ weight_data = << >>
        /\ ~ready => frames_read = << >> /\ weight_data = << >> /\ emitted_on = {}
        /\ pc \in {"sampling", "compute", "report", "persist", "disconnect",
                   "command", "done"} => ready /\ ready_waits = 1 /\ board
        /\ Range(weight_data) \subseteq Range(frames_read)

\* frames were read and counted after the one wait for SPACE
C16_Witness ==
    /\ ~args.fake
    /\ ready /\ ready_waits = 1
    /\ Len(weight_data) >= 1
    /\ Len(frames_read) > Len(weight_data)

\* The part of a session with a board up to the end of read_data, with one
\* fixed choice of the arguments that the later steps read.  The operator
\* does press SPACE in the end: wait_for_space blocks until then.
LiveInit ==
    /\ Init
    /\ ~args.fake
    /\ args.adjust = 0 /\ ~args.weight_only /\ args.units = "kg"
    /\ ~args.json /\ ~args.save /\ ~args.print /\ args.command = NoCommand

LiveNext == Start \/ Poll \/ WaitForSpace \/ ReadEvent

LiveSpec == LiveInit /\ [][LiveNext]_vars /\ WF_vars(WaitForSpace)

\* read_data has been called
SamplingEntered == ready /\ pc \notin BeforeSampling

C19_SampleSetNonEmpty == pc = "compute" => Len(weight_data) >= 1

====
